---- MODULE Spec2Model ----
(***************************************************************************)
(* Model of the CC26xx/CC13xx flash driver (src/flash/nor/cc26xx.c).       *)
(*                                                                         *)
(* The host side is a program counter driven state machine: one action per *)
(* handler segment between two points where the target helper algorithm    *)
(* can interleave.  The target side is the debug target (halted/running),  *)
(* its working-area allocator and the helper algorithm draining the two    *)
(* ping-pong slots.  Target primitives (read, write, alloc, start, halt,   *)
(* join) may fail; each failure is a nondeterministic choice.              *)
(*                                                                         *)
(* Sizes are scaled: a sector is SectorLength bytes, a bank has at most    *)
(* MaxSectorCount sectors and an unsigned word has WordBits bits.          *)
(***************************************************************************)
EXTENDS Integers, Sequences, FiniteSets, TLC

\* ------------------------------------------------------------------ bounds
MaxSectorCount == 3
SectorLength == 2
MaxCount == 5
PollStep == 4500
WordBits == 5

\* flash-size words the modelled devices report (low byte = sector count)
FlashSizeWords == {2, 260}
BankNumbers == {0, 1}

\* ------------------------------------------------------- program constants
FLASH_TIMEOUT == 8000

ERROR_OK == "ERROR_OK"
ERROR_FAIL == "ERROR_FAIL"
ERROR_TARGET_NOT_HALTED == "ERROR_TARGET_NOT_HALTED"
ERROR_TARGET_RESOURCE_NOT_AVAILABLE == "ERROR_TARGET_RESOURCE_NOT_AVAILABLE"
\* errors propagated unchanged from the target primitives
ERR_READ == "ERR_READ"
ERR_WRITE == "ERR_WRITE"
ERR_ALLOC == "ERR_ALLOC"
ERR_START == "ERR_START"
ERR_JOIN == "ERR_JOIN"
\* no function has returned a value yet
NOT_CALLED == "NOT_CALLED"

CC26XX_BUFFER_FULL == "full"
CC26XX_BUFFER_EMPTY == "empty"
\* any status value that is neither full nor empty
STATUS_OTHER == "other"
StatusValues == {CC26XX_BUFFER_FULL, CC26XX_BUFFER_EMPTY, STATUS_OTHER}

TARGET_HALTED == "halted"
TARGET_RUNNING == "running"

\* is_erased values of struct flash_sector
IS_UNKNOWN == -1
IS_NOT_ERASED == 0
IS_ERASED == 1

\* bank->sectors == 0 (no table allocated)
NULL_SECTORS == << >>
\* cc26xx_bank->working_area == 0
NULL_AREA == 0
AREA == 1

WordMod == 2 ^ WordBits

\* bank->base: the flash of the device starts at address 0
CC26XX_FLASH_BASE_ADDR == 0

\* --------------------------------------------------------------- variables
VARIABLES
  bank_number,    \* bank->bank_number
  flashSizeWord,  \* word the device returns at CC26XX_FLASH_SIZE_INFO
  probed,         \* cc26xx_bank->probed
  num_sectors,    \* bank->num_sectors
  sectors,        \* bank->sectors[k].is_erased, k in 0..num_sectors-1
  layout,         \* bank->sectors[k].offset, .size and .is_protected
  working_area,   \* cc26xx_bank->working_area
  targetState,    \* target->state
  algoRunning,    \* the helper algorithm is executing on the target
  tstatus,        \* the two status words in target memory
  helperSlot,     \* slot the helper drains next
  drained,        \* records the helper has consumed since it was launched
  allocated,      \* working areas handed out and not yet released
  pc,             \* position of the host in the current call
  op,             \* function whose body is executing
  first, last,    \* arguments of cc26xx_erase
  offset, count,  \* arguments of cc26xx_write
  i,              \* loop variable of cc26xx_erase
  remaining,      \* count as decremented by the loop of cc26xx_write
  address,        \* address of cc26xx_write
  index,          \* ping-pong index
  retval,         \* retval of the executing function
  wslot,          \* slot whose status word cc26xx_wait_algo_done polls
  wstatus,        \* status local of cc26xx_wait_algo_done
  elapsed,        \* elapsed_ms local of cc26xx_wait_algo_done
  wcont,          \* caller position cc26xx_wait_algo_done returns to
  quitRet,        \* value the cc26xx_quit of the current call returned
  log,            \* target primitives invoked by the current call, in order
  entry           \* bank and target state when the current call was entered

devVars == <<bank_number, flashSizeWord>>
bankVars == <<probed, num_sectors, sectors, layout, working_area>>
targetVars == <<targetState, algoRunning, tstatus, helperSlot, drained,
               allocated>>
argVars == <<first, last, offset, count>>
loopVars == <<i, remaining, address, index>>
waitVars == <<wslot, wstatus, elapsed, wcont>>
vars == <<devVars, bankVars, targetVars, argVars, loopVars, waitVars,
          pc, op, retval, quitRet, log, entry>>

\* ----------------------------------------------------------------- helpers
\* an entry of log: the primitive, the ping-pong slot it addresses (-1 when
\* it addresses none), the flash address and byte length it carries (for a
\* join, len is its timeout in ms) and whether the primitive returned
\* ERROR_OK.  A "wait" entry marks a call of cc26xx_wait_algo_done, whose
\* outcome is in retval.
Ev(k) == [ev |-> k, slot |-> -1, addr |-> 0, len |-> 0, ok |-> TRUE]
EvSlot(k, s) == [ev |-> k, slot |-> s, addr |-> 0, len |-> 0, ok |-> TRUE]
EvPost(s, a, l) ==
  [ev |-> "post", slot |-> s, addr |-> a, len |-> l, ok |-> TRUE]
EvData(s, a, l) ==
  [ev |-> "data", slot |-> s, addr |-> a, len |-> l, ok |-> TRUE]
\* the entry of primitive e returning ERROR_OK (ok) or an error
Res(e, ok) == [e EXCEPT !.ok = ok]

NoEntry == [sectors |-> NULL_SECTORS, num_sectors |-> 0, probed |-> FALSE,
            working_area |-> NULL_AREA, targetState |-> TARGET_HALTED,
            algoRunning |-> FALSE]

Snapshot == [sectors |-> sectors, num_sectors |-> num_sectors,
             probed |-> probed, working_area |-> working_area,
             targetState |-> targetState, algoRunning |-> algoRunning]

\* sector count of the attached device: low byte of the flash-size word,
\* capped at CC26XX_MAX_SECTOR_COUNT
NumSectorsOf(word) ==
  LET n == word % 256
  IN IF n > MaxSectorCount THEN MaxSectorCount ELSE n

DeviceSectors == NumSectorsOf(flashSizeWord)

\* a fresh table of n sectors, all "unknown"
UnknownTable(n) == [k \in 0..(n - 1) |-> IS_UNKNOWN]

\* offset, size and is_protected of the n sectors cc26xx_probe lays out
SectorLayout(n) ==
  [k \in 0..(n - 1) |-> [offset |-> k * SectorLength, size |-> SectorLength,
                         is_protected |-> 0]]

\* cc26xx_init without the reset of the erased status
MarkAllUnknown_skipped(s, n) == s

\* cc26xx_init, "Mark erased status of sectors as unknown"
MarkAllUnknown(s, n) ==
  IF s = NULL_SECTORS THEN s
  ELSE [k \in DOMAIN s |-> IF k < n THEN IS_UNKNOWN ELSE s[k]]

\* the halted check left out
TargetIsHalted_unchecked == TRUE

\* "TARGET_HALTED != target->state" of the three calls and of cc26xx_probe
TargetIsHalted == targetState = TARGET_HALTED

\* -------------------------------------------------------------------- Init
Init ==
  /\ bank_number \in BankNumbers
  /\ flashSizeWord \in FlashSizeWords
  /\ probed = FALSE
  /\ num_sectors = 0
  /\ sectors = NULL_SECTORS
  /\ layout = NULL_SECTORS
  /\ working_area = NULL_AREA
  /\ targetState \in {TARGET_HALTED, TARGET_RUNNING}
  /\ algoRunning = FALSE
  /\ tstatus = [s \in 0..1 |-> CC26XX_BUFFER_EMPTY]
  /\ helperSlot = 0
  /\ drained = 0
  /\ allocated = 0
  /\ pc = "idle"
  /\ op = "none"
  /\ first = 0 /\ last = 0 /\ offset = 0 /\ count = 0
  /\ i = 0 /\ remaining = 0 /\ address = 0 /\ index = 0
  /\ retval = ERROR_OK
  /\ quitRet = NOT_CALLED
  /\ wslot = 0 /\ wstatus = CC26XX_BUFFER_FULL /\ elapsed = 0 /\ wcont = "none"
  /\ log = << >>
  /\ entry = NoEntry

\* ------------------------------------------------------------ cc26xx_probe
ProbeReadFails == {"read_icepick", "read_user", "read_sram", "read_flash"}
ProbeFailPoints == {"none", "malloc"} \cup ProbeReadFails

\* target_read_u32 calls cc26xx_probe makes before it stops
ProbeReads(fail) ==
  CASE fail = "read_icepick" -> 1
    [] fail = "read_user" -> 2
    [] fail = "read_sram" -> 3
    [] OTHER -> 4

RECURSIVE Repeat(_, _)
Repeat(e, n) == IF n = 0 THEN << >> ELSE <<e>> \o Repeat(e, n - 1)

\* body of cc26xx_probe after the halted check, failing at `fail`
ProbeBody(fail) ==
  IF fail \in ProbeReadFails
  THEN [ret |-> ERR_READ, probed |-> probed, num_sectors |-> num_sectors,
        sectors |-> sectors, layout |-> layout,
        log |-> Repeat(Ev("read"), ProbeReads(fail) - 1)
                \o <<Res(Ev("read"), FALSE)>>]
  ELSE IF fail = "malloc"
  THEN [ret |-> ERROR_FAIL, probed |-> probed, num_sectors |-> num_sectors,
        sectors |-> NULL_SECTORS, layout |-> NULL_SECTORS,
        log |-> Repeat(Ev("read"), 4)]
  ELSE [ret |-> ERROR_OK, probed |-> TRUE, num_sectors |-> DeviceSectors,
        sectors |-> UnknownTable(DeviceSectors),
        layout |-> SectorLayout(DeviceSectors),
        log |-> Repeat(Ev("read"), 4)]

\* the dispatch layer calls probe()
cc26xx_probe ==
  /\ pc = "idle"
  /\ entry' = Snapshot
  /\ op' = "probe"
  /\ pc' = "done"
  /\ IF ~TargetIsHalted
     THEN /\ retval' = ERROR_TARGET_NOT_HALTED
          /\ log' = << >>
          /\ UNCHANGED bankVars
     ELSE \E fail \in ProbeFailPoints :
            LET r == ProbeBody(fail)
            IN /\ retval' = r.ret
               /\ log' = r.log
               /\ probed' = r.probed
               /\ num_sectors' = r.num_sectors
               /\ sectors' = r.sectors
               /\ layout' = r.layout
               /\ UNCHANGED working_area
  /\ quitRet' = NOT_CALLED
  /\ UNCHANGED <<devVars, targetVars, argVars, loopVars, waitVars>>

\* ------------------------------------------------------------- cc26xx_init
InitFailPoints == {"none", "alloc", "address", "upload", "start"}

\* target_free_working_area: the area is returned to the allocator, which
\* also clears the handle registered with target_alloc_working_area
FreeLog(wa) == IF wa # NULL_AREA THEN <<Ev("free")>> ELSE << >>
\* the working area kept allocated where the code releases it
FreeCount_skipped(wa, n) == n

FreeCount(wa, n) == IF wa # NULL_AREA THEN n - 1 ELSE n

\* the handle after target_alloc_working_area has failed: the preceding
\* target_free_working_area cleared it and a failed allocation stores nothing
HandleAfterFailedAlloc == NULL_AREA

\* events of cc26xx_init after cc26xx_auto_probe, failing at fp
InitLog(wa, fp) ==
  FreeLog(wa) \o <<Res(Ev("alloc"), fp # "alloc")>>
  \o (IF fp \in {"alloc", "address"} THEN << >>
      ELSE <<Res(Ev("upload"), fp # "upload")>>)
  \o (IF fp \in {"alloc", "address", "upload"} THEN << >>
      ELSE <<Res(Ev("start"), fp # "start")>>)

\* return value of cc26xx_init after cc26xx_auto_probe, failing at fp
InitRet(fp) ==
  CASE fp = "alloc" -> ERR_ALLOC
    [] fp = "address" -> ERROR_TARGET_RESOURCE_NOT_AVAILABLE
    [] fp = "upload" -> ERR_WRITE
    [] fp = "start" -> ERR_START
    [] OTHER -> ERROR_OK

\* cc26xx_init launching the helper whatever address was allocated
InitLaunches_unchecked(fp) == fp \in {"none", "address"}

\* cc26xx_init reaches the end of its body: no step of it has failed
InitLaunches(fp) == fp = "none"

\* position the caller of cc26xx_init continues at
AfterInit(o) ==
  CASE o = "mass_erase" -> "mass_post"
    [] o = "erase" -> "erase_bufs"
    [] OTHER -> "loop"

\* cc26xx_auto_probe followed by the rest of cc26xx_init; every caller
\* returns the error of a failed cc26xx_init at once
cc26xx_init ==
  /\ pc = "init"
  /\ \E pf \in ProbeFailPoints, fp \in InitFailPoints :
       LET pr == IF probed
                 THEN [ret |-> ERROR_OK, probed |-> probed,
                       num_sectors |-> num_sectors, sectors |-> sectors,
                       layout |-> layout, log |-> << >>]
                 ELSE ProbeBody(pf)
       IN IF bank_number # 0
          THEN /\ retval' = ERROR_FAIL
               /\ pc' = "done"
               /\ UNCHANGED <<bankVars, targetVars, log>>
          ELSE IF pr.ret # ERROR_OK
          THEN /\ retval' = pr.ret
               /\ pc' = "done"
               /\ log' = log \o pr.log
               /\ probed' = pr.probed
               /\ num_sectors' = pr.num_sectors
               /\ sectors' = pr.sectors
               /\ layout' = pr.layout
               /\ UNCHANGED <<working_area, targetVars>>
          ELSE /\ retval' = InitRet(fp)
               /\ log' = log \o pr.log \o InitLog(working_area, fp)
               /\ probed' = pr.probed
               /\ num_sectors' = pr.num_sectors
               /\ layout' = pr.layout
               /\ working_area' = IF fp = "alloc" THEN HandleAfterFailedAlloc
                                 ELSE AREA
               /\ allocated' = FreeCount(working_area, allocated)
                                 + (IF fp = "alloc" THEN 0 ELSE 1)
               /\ IF InitLaunches(fp)
                  THEN /\ algoRunning' = TRUE
                       /\ targetState' = TARGET_RUNNING
                       /\ tstatus' = [s \in 0..1 |-> CC26XX_BUFFER_EMPTY]
                       /\ helperSlot' = 0
                       /\ drained' = 0
                       /\ sectors' = MarkAllUnknown(pr.sectors, pr.num_sectors)
                       /\ pc' = AfterInit(op)
                  ELSE /\ sectors' = pr.sectors
                       /\ pc' = "done"
                       /\ UNCHANGED <<algoRunning, targetState, tstatus,
                                      helperSlot, drained>>
  /\ UNCHANGED <<devVars, argVars, loopVars, waitVars, op, quitRet, entry>>

\* ------------------------------------------------------ entry of the calls
\* the dispatch layer calls erase(first, last) with a range of the device
cc26xx_erase ==
  /\ pc = "idle"
  /\ \E f \in 0..(DeviceSectors - 1), l \in 0..(DeviceSectors - 1) :
       /\ f <= l
       /\ first' = f
       /\ last' = l
       /\ entry' = Snapshot
       /\ log' = << >>
       /\ IF ~TargetIsHalted
          THEN /\ retval' = ERROR_TARGET_NOT_HALTED
               /\ op' = "erase"
               /\ pc' = "done"
          ELSE /\ retval' = ERROR_OK
               /\ pc' = "init"
               /\ op' = IF bank_number = 0 /\ f = 0 /\ l = num_sectors - 1
                        THEN "mass_erase" ELSE "erase"
       /\ i' = f
       /\ index' = 0
  /\ quitRet' = NOT_CALLED
  /\ UNCHANGED <<devVars, bankVars, targetVars, offset, count, remaining,
                 address, waitVars>>

\* the dispatch layer calls write(buffer, offset, count) within the device
cc26xx_write ==
  /\ pc = "idle"
  /\ \E o \in 0..(DeviceSectors * SectorLength - 1), c \in 0..MaxCount :
       /\ o + c <= DeviceSectors * SectorLength
       /\ offset' = o
       /\ count' = c
       /\ remaining' = c
       /\ address' = (CC26XX_FLASH_BASE_ADDR + o) % WordMod
  /\ entry' = Snapshot
  /\ log' = << >>
  /\ op' = "write"
  /\ index' = 0
  /\ IF ~TargetIsHalted
     THEN /\ retval' = ERROR_TARGET_NOT_HALTED
          /\ pc' = "done"
     ELSE /\ retval' = ERROR_OK
          /\ pc' = "init"
  /\ quitRet' = NOT_CALLED
  /\ UNCHANGED <<devVars, bankVars, targetVars, first, last, i, waitVars>>

\* --------------------------------------------------- cc26xx_wait_algo_done
\* the caller invokes cc26xx_wait_algo_done on the status word of slot s
StartWait(s, cont) ==
  /\ wslot' = s
  /\ wstatus' = CC26XX_BUFFER_FULL
  /\ elapsed' = 0
  /\ wcont' = cont
  /\ pc' = "wait"

\* the loop without its timeout break
WaitContinues_no_timeout(status, elapsed_ms) == status = CC26XX_BUFFER_FULL

\* the loop of cc26xx_wait_algo_done goes round again
WaitContinues(status, elapsed_ms) ==
  status = CC26XX_BUFFER_FULL /\ ~(elapsed_ms > FLASH_TIMEOUT)

\* the return value taking every status other than "full" for success
WaitResult_unless_full(status) ==
  IF status = CC26XX_BUFFER_FULL THEN ERROR_FAIL ELSE ERROR_OK

\* value cc26xx_wait_algo_done returns once its loop has ended
WaitResult(status) ==
  IF status # CC26XX_BUFFER_EMPTY THEN ERROR_FAIL ELSE ERROR_OK

\* the loop going on after cc26xx_wait_algo_done has returned an error
AfterWait_ignores_error(cont, r) ==
  IF cont = "round" THEN "loop" ELSE "finish"

\* position of the caller after cc26xx_wait_algo_done returned r
AfterWait(cont, r) ==
  IF cont = "round" /\ r = ERROR_OK THEN "loop" ELSE "finish"

\* the block size one byte short of a sector
ChunkSize_short(cnt) ==
  IF cnt > SectorLength - 1 THEN SectorLength - 1 ELSE cnt

\* bytes of the current round of cc26xx_write
ChunkSize(cnt) == IF cnt > SectorLength THEN SectorLength ELSE cnt

\* "address += size" without effect
NextAddress_stuck(a, size) == a

\* "address += size" of cc26xx_write, an unsigned word
NextAddress(a, size) == (a + size) % WordMod

\* what the caller does when the wait of a round has returned r
RoundDone(r) ==
  IF wcont = "round" /\ r = ERROR_OK
  THEN IF op = "erase"
       THEN /\ i' = i + 1
            /\ UNCHANGED <<remaining, address>>
       ELSE /\ remaining' = remaining - ChunkSize(remaining)
            /\ address' = NextAddress(address, ChunkSize(remaining))
            /\ UNCHANGED i
  ELSE UNCHANGED <<i, remaining, address>>

\* one iteration of the poll loop: read the status word, then look at the
\* clock, which has advanced by d since the previous iteration
WaitPoll(d) ==
  /\ pc = "wait"
  /\ \E readOk \in BOOLEAN :
       IF ~readOk
       THEN /\ retval' = ERR_READ
            /\ pc' = AfterWait(wcont, ERR_READ)
            /\ RoundDone(ERR_READ)
            /\ UNCHANGED <<wstatus, elapsed>>
       ELSE LET st == tstatus[wslot]
                el == elapsed + d
            IN /\ wstatus' = st
               /\ elapsed' = el
               /\ IF WaitContinues(st, el)
                  THEN /\ retval' = ERROR_OK
                       /\ pc' = "wait"
                       /\ UNCHANGED <<i, remaining, address>>
                  ELSE /\ retval' = WaitResult(st)
                       /\ pc' = AfterWait(wcont, WaitResult(st))
                       /\ RoundDone(WaitResult(st))
  /\ UNCHANGED <<devVars, bankVars, targetVars, argVars, index, wslot, wcont,
                 op, quitRet, log, entry>>

cc26xx_wait_algo_done == \E d \in {0, PollStep} : WaitPoll(d)

\* ------------------------------------------------------- cc26xx_mass_erase
\* post the erase-all record to slot 0 and start waiting for it
MassErasePost ==
  /\ pc = "mass_post"
  /\ \E writeOk \in BOOLEAN :
       IF writeOk
       THEN /\ tstatus' = [tstatus EXCEPT ![0] = CC26XX_BUFFER_FULL]
            /\ log' = log \o <<EvPost(0, 0, 4), EvSlot("wait", 0)>>
            /\ StartWait(0, "final")
            /\ UNCHANGED retval
       ELSE /\ retval' = ERR_WRITE
            /\ log' = log \o <<Res(EvPost(0, 0, 4), FALSE)>>
            /\ pc' = "finish"
            /\ UNCHANGED <<tstatus, waitVars>>
  /\ UNCHANGED <<devVars, bankVars, targetState, algoRunning, helperSlot,
                 drained, allocated, argVars, loopVars, op, quitRet, entry>>

\* ------------------------------------------------------------ cc26xx_erase
EraseBufFails(f, l) ==
  IF (l - f) > 0 THEN {"none", "buf0", "buf1"} ELSE {"none", "buf0"}

\* target_write_buffer calls that fill the payload buffers, failing at fail
EraseBufLog(f, l, fail) ==
  <<Res(EvSlot("data", 0), fail # "buf0")>>
  \o (IF (l - f) > 0 /\ fail # "buf0"
      THEN <<Res(EvSlot("data", 1), fail # "buf1")>> ELSE << >>)

\* "Initialize buffers to write a word of all ones"
EraseInitBuffers ==
  /\ pc = "erase_bufs"
  /\ \E fail \in EraseBufFails(first, last) :
       /\ log' = log \o EraseBufLog(first, last, fail)
       /\ IF fail = "none"
          THEN /\ pc' = "loop"
               /\ UNCHANGED retval
          ELSE /\ retval' = ERR_WRITE
               /\ pc' = "done"
  /\ UNCHANGED <<devVars, bankVars, targetVars, argVars, loopVars, waitVars,
                 op, quitRet, entry>>

\* "address = bank->base + (i * cc26xx_bank->sector_length)"
SectorAddress(k) == (CC26XX_FLASH_BASE_ADDR + k * SectorLength) % WordMod

\* "index ^= 1" without effect
Flip_stuck(idx) == idx

\* "index ^= 1"
Flip(idx) == 1 - idx

\* one round of the erase loop up to the call of cc26xx_wait_algo_done
ErasePost ==
  /\ pc = "loop"
  /\ op = "erase"
  /\ i <= last
  /\ \E writeOk \in BOOLEAN :
       IF writeOk
       THEN /\ tstatus' = [tstatus EXCEPT ![index] = CC26XX_BUFFER_FULL]
            /\ index' = Flip(index)
            /\ log' = log \o <<EvPost(index, SectorAddress(i), 4),
                               EvSlot("wait", Flip(index))>>
            /\ StartWait(Flip(index), "round")
            /\ UNCHANGED retval
       ELSE /\ retval' = ERR_WRITE
            /\ log' = log \o <<Res(EvPost(index, SectorAddress(i), 4),
                                   FALSE)>>
            /\ pc' = "finish"
            /\ UNCHANGED <<tstatus, index, waitVars>>
  /\ UNCHANGED <<devVars, bankVars, targetState, algoRunning, helperSlot,
                 drained, allocated, argVars, i, remaining, address, op,
                 quitRet, entry>>

\* the loop of cc26xx_erase or cc26xx_write has ended without an error
LoopEnded ==
  IF op = "erase" THEN ~(i <= last) ELSE ~(remaining > 0)

\* "If no error yet, wait for last sector / buffer to finish"
TrailingWait ==
  /\ pc = "loop"
  /\ LoopEnded
  /\ index' = Flip(index)
  /\ log' = log \o <<EvSlot("wait", Flip(index))>>
  /\ StartWait(Flip(index), "final")
  /\ UNCHANGED <<devVars, bankVars, targetVars, argVars, i, remaining,
                 address, op, retval, quitRet, entry>>

\* ------------------------------------------------------------ cc26xx_write
\* "Put next block of data to flash into buffer"
WriteData ==
  /\ pc = "loop"
  /\ op = "write"
  /\ remaining > 0
  /\ \E writeOk \in BOOLEAN :
       /\ log' = log \o <<Res(EvData(index, address, ChunkSize(remaining)),
                              writeOk)>>
       /\ IF writeOk
          THEN /\ pc' = "write_post"
               /\ UNCHANGED retval
          ELSE /\ retval' = ERR_WRITE
               /\ pc' = "finish"
  /\ UNCHANGED <<devVars, bankVars, targetVars, argVars, loopVars, waitVars,
                 op, quitRet, entry>>

\* post the program record of the round and start waiting for the other slot
WritePost ==
  /\ pc = "write_post"
  /\ \E writeOk \in BOOLEAN :
       IF writeOk
       THEN /\ tstatus' = [tstatus EXCEPT ![index] = CC26XX_BUFFER_FULL]
            /\ index' = Flip(index)
            /\ log' = log \o <<EvPost(index, address, ChunkSize(remaining)),
                               EvSlot("wait", Flip(index))>>
            /\ StartWait(Flip(index), "round")
            /\ UNCHANGED retval
       ELSE /\ retval' = ERR_WRITE
            /\ log' = log \o <<Res(EvPost(index, address,
                                          ChunkSize(remaining)), FALSE)>>
            /\ pc' = "finish"
            /\ UNCHANGED <<tstatus, index, waitVars>>
  /\ UNCHANGED <<devVars, bankVars, targetState, algoRunning, helperSlot,
                 drained, allocated, argVars, i, remaining, address, op,
                 quitRet, entry>>

\* ------------------------------------------------------------- cc26xx_quit
\* the target is halted once target_halt or target_wait_algorithm succeeds
QuitStops(haltOk, joinOk) == haltOk \/ joinOk

\* cc26xx_quit returning the result of target_halt
QuitRet_halt(haltOk, joinOk) == IF haltOk THEN ERROR_OK ELSE ERR_JOIN

\* "retval = target_wait_algorithm(...); ... return retval;" of cc26xx_quit
QuitRet(haltOk, joinOk) == IF joinOk THEN ERROR_OK ELSE ERR_JOIN

\* the caller returning what cc26xx_quit returned when it had no error yet
FinishRet_quit(r, q) == IF r = ERROR_OK THEN q ELSE r

\* the caller returning what cc26xx_quit returned
FinishRet_masks(r, q) == q

\* "(void)cc26xx_quit(bank); ... return retval;" of the three calls
FinishRet(r, q) == r

\* halt (error ignored), join with FLASH_TIMEOUT, free, clear the handle
cc26xx_quit(haltOk, joinOk) ==
  /\ targetState' = IF QuitStops(haltOk, joinOk) THEN TARGET_HALTED
                    ELSE targetState
  /\ algoRunning' = IF QuitStops(haltOk, joinOk) THEN FALSE ELSE algoRunning
  /\ allocated' = FreeCount(working_area, allocated)
  /\ working_area' = NULL_AREA
  /\ log' = log \o <<Res(Ev("halt"), haltOk),
                     Res([Ev("join") EXCEPT !.len = FLASH_TIMEOUT], joinOk),
                     Ev("free")>>
  /\ quitRet' = QuitRet(haltOk, joinOk)
  /\ UNCHANGED <<tstatus, helperSlot, drained>>

\* the marking loop of cc26xx_mass_erase stopping one sector early
MarkAllErased_short(s, n, r) ==
  IF r = ERROR_OK /\ s # NULL_SECTORS
  THEN [k \in DOMAIN s |-> IF k < n - 1 THEN IS_ERASED ELSE s[k]]
  ELSE s

\* "If no errors, mark sectors as erased" of cc26xx_mass_erase
MarkAllErased(s, n, r) ==
  IF r = ERROR_OK /\ s # NULL_SECTORS
  THEN [k \in DOMAIN s |-> IF k < n THEN IS_ERASED ELSE s[k]]
  ELSE s

\* the marking of cc26xx_erase without its "no errors" condition
MarkErased_always(s, f, l, r) ==
  IF s # NULL_SECTORS
  THEN [k \in DOMAIN s |-> IF f <= k /\ k <= l THEN IS_ERASED ELSE s[k]]
  ELSE s

\* "If no errors, mark sectors as erased" of cc26xx_erase
MarkErased(s, f, l, r) ==
  IF r = ERROR_OK /\ s # NULL_SECTORS
  THEN [k \in DOMAIN s |-> IF f <= k /\ k <= l THEN IS_ERASED ELSE s[k]]
  ELSE s

\* end_address of cc26xx_write, an unsigned word
EndAddress(o, c) == (o + c - 1) % WordMod

\* the loop "while (offset <= end_address)" of cc26xx_write; oob reports a
\* store to a sector index outside the table
RECURSIVE MarkLoop(_, _, _)
MarkLoop(s, o, e) ==
  IF ~(o <= e) THEN [sectors |-> s, oob |-> FALSE]
  ELSE LET sector == o \div SectorLength
       IN IF sector \notin DOMAIN s
          THEN [sectors |-> s, oob |-> TRUE]
          ELSE MarkLoop([s EXCEPT ![sector] = IS_NOT_ERASED],
                        (o + SectorLength) % WordMod, e)

\* the marking of cc26xx_write setting "erased" instead of "not erased"
MarkNotErased_erased(s, o, c, r) ==
  IF r = ERROR_OK /\ s # NULL_SECTORS
  THEN [sectors |-> [k \in DOMAIN s |-> IS_ERASED], oob |-> FALSE]
  ELSE [sectors |-> s, oob |-> FALSE]

\* "If no errors, mark sectors as not erased" of cc26xx_write
MarkNotErased(s, o, c, r) ==
  IF r = ERROR_OK /\ s # NULL_SECTORS
  THEN MarkLoop(s, o, EndAddress(o, c))
  ELSE [sectors |-> s, oob |-> FALSE]

\* cc26xx_mass_erase from "Regardless of errors, try to close down algo"
MassEraseFinish ==
  /\ pc = "finish"
  /\ op = "mass_erase"
  /\ \E haltOk \in BOOLEAN, joinOk \in BOOLEAN : cc26xx_quit(haltOk, joinOk)
  /\ retval' = FinishRet(retval, quitRet')
  /\ sectors' = MarkAllErased(sectors, num_sectors, retval)
  /\ pc' = "done"
  /\ UNCHANGED <<devVars, probed, num_sectors, layout, argVars, loopVars,
                 waitVars, op, entry>>

\* cc26xx_erase from "Regardless of errors, try to close down algo"
EraseFinish ==
  /\ pc = "finish"
  /\ op = "erase"
  /\ \E haltOk \in BOOLEAN, joinOk \in BOOLEAN : cc26xx_quit(haltOk, joinOk)
  /\ retval' = FinishRet(retval, quitRet')
  /\ sectors' = MarkErased(sectors, first, last, retval)
  /\ pc' = "done"
  /\ UNCHANGED <<devVars, probed, num_sectors, layout, argVars, loopVars,
                 waitVars, op, entry>>

\* cc26xx_write from "Regardless of errors, try to close down algo"
WriteFinish ==
  /\ pc = "finish"
  /\ op = "write"
  /\ \E haltOk \in BOOLEAN, joinOk \in BOOLEAN : cc26xx_quit(haltOk, joinOk)
  /\ retval' = FinishRet(retval, quitRet')
  /\ LET m == MarkNotErased(sectors, offset, count, retval)
     IN /\ sectors' = m.sectors
        /\ pc' = IF m.oob THEN "fault" ELSE "done"
  /\ UNCHANGED <<devVars, probed, num_sectors, layout, argVars, loopVars,
                 waitVars, op, entry>>

\* ------------------------------------------------------------- environment
\* the helper algorithm consumes the record of the slot it expects next and
\* reports the outcome in the status word of that slot
HelperDrain ==
  /\ algoRunning
  /\ tstatus[helperSlot] = CC26XX_BUFFER_FULL
  /\ \E st \in {CC26XX_BUFFER_EMPTY, STATUS_OTHER} :
       tstatus' = [tstatus EXCEPT ![helperSlot] = st]
  /\ helperSlot' = 1 - helperSlot
  /\ drained' = drained + 1
  /\ UNCHANGED <<devVars, bankVars, targetState, algoRunning, allocated,
                 argVars, loopVars, waitVars, pc, op, retval, quitRet, log,
                 entry>>

\* the call returns to the dispatch layer
Return ==
  /\ pc = "done"
  /\ pc' = "idle"
  /\ op' = "none"
  /\ first' = 0 /\ last' = 0 /\ offset' = 0 /\ count' = 0
  /\ i' = 0 /\ remaining' = 0 /\ address' = 0 /\ index' = 0
  /\ retval' = ERROR_OK
  /\ quitRet' = NOT_CALLED
  /\ wslot' = 0 /\ wstatus' = CC26XX_BUFFER_FULL /\ elapsed' = 0
  /\ wcont' = "none"
  /\ log' = << >>
  /\ entry' = NoEntry
  /\ UNCHANGED <<devVars, bankVars, targetVars>>

\* between calls the user halts the target
UserHalt ==
  /\ pc = "idle"
  /\ targetState = TARGET_RUNNING
  /\ targetState' = TARGET_HALTED
  /\ algoRunning' = FALSE
  /\ UNCHANGED <<devVars, bankVars, tstatus, helperSlot, drained, allocated,
                 argVars, loopVars, waitVars, pc, op, retval, quitRet, log,
                 entry>>

\* between calls the user resumes the target
UserResume ==
  /\ pc = "idle"
  /\ targetState = TARGET_HALTED
  /\ targetState' = TARGET_RUNNING
  /\ UNCHANGED <<devVars, bankVars, algoRunning, tstatus, helperSlot,
                 drained, allocated, argVars, loopVars, waitVars, pc, op,
                 retval, quitRet, log, entry>>

Next ==
  \/ cc26xx_probe
  \/ cc26xx_erase
  \/ cc26xx_write
  \/ cc26xx_init
  \/ MassErasePost
  \/ EraseInitBuffers
  \/ ErasePost
  \/ WriteData
  \/ WritePost
  \/ TrailingWait
  \/ cc26xx_wait_algo_done
  \/ MassEraseFinish
  \/ EraseFinish
  \/ WriteFinish
  \/ HelperDrain
  \/ Return
  \/ UserHalt
  \/ UserResume

Spec == Init /\ [][Next]_vars

\* the clock keeps advancing while cc26xx_wait_algo_done polls
FairSpec == Spec /\ WF_vars(WaitPoll(PollStep))

TypeOK ==
  /\ pc \in {"idle", "init", "mass_post", "erase_bufs", "loop", "write_post",
             "wait", "finish", "done", "fault"}
  /\ op \in {"none", "probe", "erase", "mass_erase", "write"}
  /\ working_area \in {NULL_AREA, AREA}
  /\ wstatus \in StatusValues
  /\ \A s \in 0..1 : tstatus[s] \in StatusValues
  /\ algoRunning => targetState = TARGET_RUNNING
  /\ allocated \in 0..1
  /\ drained \in 0..(MaxSectorCount + MaxCount)
  /\ quitRet \in {NOT_CALLED, ERROR_OK, ERR_JOIN}
  /\ \A k \in 1..Len(log) : log[k].ok \in BOOLEAN

\* ------------------------------------------------------ observation terms
\* an erase or write call is at the moment it returns
Returned == pc = "done" /\ op \in {"erase", "mass_erase", "write"}

Failed == Returned /\ retval # ERROR_OK

\* number of invocations of primitive e by the current call
Calls(e) == Cardinality({k \in 1..Len(log) : log[k].ev = e})

\* cc26xx_init of the current call has launched the helper algorithm
Started == Calls("start") = 1 /\ retval # ERR_START

\* cc26xx_quit halts, joins and frees once per invocation
QuitCalls == Calls("join")

\* sector k has bytes in [o, o + c)
Overlaps(k, o, c) == k * SectorLength < o + c /\ o < (k + 1) * SectorLength

\* ----------------------------------------------------------------- C1
\* C1: when mass-erase, sector-range erase or byte-range program returns,
\* with success or with a failure, the helper algorithm is not running on
\* the target.
C1_HelperStoppedAtReturn == Returned => ~algoRunning

\* ----------------------------------------------------------------- C2
\* C2, for the calls whose start step launched the helper: stop
\* (cc26xx_quit) has been called exactly once when the call returns.
C2_StopExactlyOnce == (Returned /\ Started) => QuitCalls = 1

\* ----------------------------------------------------------------- C3
\* C3: between calls the scratch-memory handle is present if and only if a
\* helper algorithm is running on the target.
C3_HandleIffRunning ==
  pc = "idle" => ((working_area # NULL_AREA) <=> algoRunning)

\* ----------------------------------------------------------------- C4
\* C4 as stated: whenever an erase or write call returns a failure, every
\* sector of the table has the erase status it had when the call was entered.
C4_FailureKeepsTable ==
  Failed => \A k \in DOMAIN sectors \cap DOMAIN entry.sectors :
              sectors[k] = entry.sectors[k]

\* C4 as amended: whenever an erase or write call returns a failure, every
\* sector's erase status is the one it had at entry or unknown; all sectors
\* are unknown when the failure came after the helper was started, and the
\* table of a probed bank is unchanged when it came before.
C4_FailureKeepsOrUnknown ==
  Failed =>
    /\ Started => \A k \in DOMAIN sectors : sectors[k] = IS_UNKNOWN
    /\ (~Started /\ entry.probed) => sectors = entry.sectors
    /\ \A k \in DOMAIN sectors :
         \/ sectors[k] = IS_UNKNOWN
         \/ k \in DOMAIN entry.sectors /\ sectors[k] = entry.sectors[k]

\* a failed call that started the helper and reset a known status
C4_Witness ==
  /\ Failed
  /\ Started
  /\ \E k \in DOMAIN sectors \cap DOMAIN entry.sectors :
       entry.sectors[k] # IS_UNKNOWN /\ sectors[k] = IS_UNKNOWN

\* ----------------------------------------------------------------- C5
\* the call that returns is erase(first, last), delegated or not
EraseReturned == pc = "done" /\ op \in {"erase", "mass_erase"}

\* C5 as stated: after a successful erase(a, b) on a probed bank every sector
\* in [a, b] is erased and every other sector has the status it had before.
C5_EraseKeepsOthers ==
  (EraseReturned /\ retval = ERROR_OK /\ entry.probed) =>
    \A k \in DOMAIN sectors :
      IF first <= k /\ k <= last
      THEN sectors[k] = IS_ERASED
      ELSE k \in DOMAIN entry.sectors => sectors[k] = entry.sectors[k]

\* C5 as amended: after a successful erase(a, b) on a probed bank every
\* sector in [a, b] is erased and every other sector is unknown.
C5_EraseResetsOthers ==
  (EraseReturned /\ retval = ERROR_OK /\ entry.probed) =>
    \A k \in DOMAIN sectors :
      IF first <= k /\ k <= last
      THEN sectors[k] = IS_ERASED
      ELSE sectors[k] = IS_UNKNOWN

\* a successful partial erase of a bank that had a known sector outside it
C5_Witness ==
  /\ EraseReturned /\ retval = ERROR_OK /\ entry.probed
  /\ \E k \in DOMAIN sectors \cap DOMAIN entry.sectors :
       /\ ~(first <= k /\ k <= last)
       /\ entry.sectors[k] # IS_UNKNOWN
  /\ \E k \in DOMAIN sectors : first <= k /\ k <= last

\* ----------------------------------------------------------------- C6
\* C6: after a successful write(buf, offset, count) with count >= 1 inside
\* the bank, every sector that has a byte in [offset, offset + count) is
\* not-erased, whether or not offset is a multiple of the sector length.
C6_WriteMarksOverlapped ==
  (pc = "done" /\ op = "write" /\ retval = ERROR_OK /\ count >= 1) =>
    \A k \in DOMAIN sectors :
      Overlaps(k, offset, count) => sectors[k] = IS_NOT_ERASED

\* ----------------------------------------------------------------- C7
\* C7: a step changes a sector's status to erased only if it is the return
\* of an erase or mass-erase call with success; a call that returns a
\* failure never changes a status to erased.
C7_ErasedOnlyOnSuccess ==
  [][(\E k \in DOMAIN sectors' :
        /\ sectors'[k] = IS_ERASED
        /\ (k \notin DOMAIN sectors \/ sectors[k] # IS_ERASED))
     => (pc' = "done" /\ retval' = ERROR_OK
         /\ op' \in {"erase", "mass_erase"})]_vars

\* a successful per-sector erase has turned a sector to erased
C7_Witness ==
  /\ pc = "done" /\ op = "erase" /\ retval = ERROR_OK
  /\ \E k \in DOMAIN sectors : sectors[k] = IS_ERASED

\* ----------------------------------------------------------------- C8
\* C8: a call entered with the target not halted returns the
\* target-not-halted failure without invoking any target primitive (no
\* allocation, no memory access, no halt or start) and leaves the bank state,
\* the sector table and the target as they were.
C8_NotHaltedIsImmediate ==
  (Returned /\ entry.targetState # TARGET_HALTED) =>
    /\ retval = ERROR_TARGET_NOT_HALTED
    /\ log = << >>
    /\ Snapshot = entry

\* an erase call found the target running
C8_Witness ==
  /\ Returned
  /\ op = "erase"
  /\ retval = ERROR_TARGET_NOT_HALTED
  /\ entry.probed

\* ----------------------------------------------------------------- C9
\* cc26xx_wait_algo_done has returned after reading "full" past the timeout
TimedOut ==
  /\ pc \in {"finish", "done", "fault", "loop"}
  /\ wcont # "none"
  /\ wstatus = CC26XX_BUFFER_FULL
  /\ elapsed > FLASH_TIMEOUT

\* C9: while the clock keeps advancing, a wait-for-done loop always ends,
\* and one that ends after reading "full" with more than FLASH_TIMEOUT ms
\* elapsed returns a failure; the loop never goes round again once the
\* elapsed time exceeds FLASH_TIMEOUT.
C9_WaitTerminatesWithFailure ==
  /\ [](pc = "wait" => <>(pc # "wait"))
  /\ [](TimedOut => retval = ERROR_FAIL)
  /\ [](pc = "wait" => elapsed <= FLASH_TIMEOUT)

\* a wait has timed out on a status word that stayed "full"
C9_Witness == TimedOut /\ retval = ERROR_FAIL /\ tstatus[wslot] = CC26XX_BUFFER_FULL

\* ----------------------------------------------------------------- C10
\* erase(0, num_sectors - 1) on bank 0 has returned success
WholeBankErased ==
  /\ EraseReturned /\ retval = ERROR_OK
  /\ bank_number = 0 /\ first = 0 /\ last = num_sectors - 1

\* C10: a successful erase of the whole of bank 0 leaves the same table by
\* either path: the table left by the mass-erase path is the one the
\* per-sector marking yields for 0..num_sectors-1, and the table left by the
\* per-sector path is the one the mass-erase marking yields.
C10_MassEqualsPerSector ==
  WholeBankErased =>
    LET reset == MarkAllUnknown(sectors, num_sectors)
    IN sectors = IF op = "mass_erase"
                 THEN MarkErased(reset, 0, num_sectors - 1, ERROR_OK)
                 ELSE MarkAllErased(reset, num_sectors, ERROR_OK)

\* the delegated mass erase has succeeded on a table with known entries
C10_Witness ==
  /\ WholeBankErased
  /\ op = "mass_erase"
  /\ num_sectors > 1
  /\ \E k \in DOMAIN entry.sectors : entry.sectors[k] = IS_NOT_ERASED

\* the per-sector path has succeeded over the whole bank
C10_PerSectorPathReached ==
  WholeBankErased /\ op = "erase" /\ num_sectors > 1

\* ----------------------------------------------------------------- C11
\* the data-buffer writes, record posts and waits of the current call
HandshakeLog ==
  SelectSeq(log, LAMBDA e : e.ev \in {"data", "post", "wait"})

\* cc26xx_write of exactly one sector length has returned success
OneSectorWritten ==
  pc = "done" /\ op = "write" /\ retval = ERROR_OK /\ count = SectorLength

\* C11 as stated: a successful write of exactly one sector length performs
\* one data-buffer write and one record post, and nothing of slot 1 (data
\* buffer, parameter block or status word) is accessed by the call.
C11_SlotZeroOnly ==
  OneSectorWritten =>
    /\ Calls("data") = 1
    /\ Calls("post") = 1
    /\ \A k \in 1..Len(log) : log[k].slot # 1

\* C11, amended: a write of exactly one sector length writes the data and
\* posts the record of its single round to slot 0, the wait of the round
\* polls the status word of slot 1, and the trailing wait polls the status
\* word of slot 0; the data buffer and the parameter block of slot 1 are
\* never written.
C11_OneRoundPollsOtherSlot ==
  /\ OneSectorWritten =>
       HandshakeLog = <<EvData(0, CC26XX_FLASH_BASE_ADDR + offset,
                               SectorLength),
                        EvPost(0, CC26XX_FLASH_BASE_ADDR + offset,
                               SectorLength),
                        EvSlot("wait", 1), EvSlot("wait", 0)>>
  /\ (op = "write" /\ count = SectorLength) =>
       \A k \in 1..Len(log) :
         log[k].ev \in {"data", "post"} => log[k].slot = 0

C11_Witness ==
  /\ OneSectorWritten
  /\ offset % SectorLength # 0
  /\ Len(HandshakeLog) = 4

\* ----------------------------------------------------------------- C12
\* entries of the sector table (none when bank->sectors is 0)
TableLength == Cardinality(DOMAIN sectors)

\* C12: after a successful probe the table has exactly N entries, N the low
\* byte of the flash-size word capped at the maximum sector count, entry k
\* has offset k * sector_length and size sector_length, is unprotected and
\* has status unknown; and in every state after a successful probe the
\* table length equals the sector count of the bank.
C12_TableMatchesDevice ==
  /\ (pc = "done" /\ op = "probe" /\ retval = ERROR_OK) =>
       /\ num_sectors = NumSectorsOf(flashSizeWord)
       /\ DOMAIN sectors = 0..(num_sectors - 1)
       /\ DOMAIN layout = 0..(num_sectors - 1)
       /\ \A k \in 0..(num_sectors - 1) :
            /\ layout[k].offset = k * SectorLength
            /\ layout[k].size = SectorLength
            /\ layout[k].is_protected = 0
            /\ sectors[k] = IS_UNKNOWN
  /\ probed => TableLength = num_sectors

\* ----------------------------------------------------------------- C13
\* the record posts and the waits of the current call, in order
PostsAndWaits == SelectSeq(log, LAMBDA e : e.ev \in {"post", "wait"})

\* rounds the loop of the current cc26xx_erase or cc26xx_write has to make
Rounds ==
  IF op = "erase" THEN last - first + 1
  ELSE (count + SectorLength - 1) \div SectorLength

\* C13: in cc26xx_erase and cc26xx_write with at least one round, round r
\* (from 0) posts its record to slot r mod 2 and then waits on the status
\* word of slot (r + 1) mod 2; a wait that follows no post of its own is
\* the single trailing wait: it comes after all the rounds, ends the
\* handshake and polls the slot of the last post.  A call that returns
\* success has made all its rounds and the trailing wait.
C13_PingPongOrder ==
  (op \in {"erase", "write"} /\ Rounds >= 1) =>
    LET pw == PostsAndWaits
    IN /\ \A j \in 1..Len(pw) :
            IF pw[j].ev = "post"
            THEN /\ j % 2 = 1
                 /\ pw[j].slot = ((j - 1) \div 2) % 2
            ELSE IF j % 2 = 0
            THEN /\ pw[j - 1].ev = "post"
                 /\ pw[j].slot = (j \div 2) % 2
                 /\ pw[j].slot # pw[j - 1].slot
            ELSE /\ j = Len(pw)
                 /\ j = 2 * Rounds + 1
                 /\ pw[j].slot = pw[j - 2].slot
                 /\ pw[j - 2].ev = "post"
       /\ (pc = "done" /\ retval = ERROR_OK) =>
            /\ Len(pw) = 2 * Rounds + 1
            /\ \A j \in 1..Len(pw) : pw[j].ok

C13_Witness ==
  /\ pc = "done" /\ op = "write" /\ retval = ERROR_OK
  /\ Rounds = 3
  /\ Len(PostsAndWaits) = 7

\* cc26xx_erase has made three rounds and returned success
C13_EraseThreeRounds ==
  /\ pc = "done" /\ op = "erase" /\ retval = ERROR_OK
  /\ Rounds = 3

\* ----------------------------------------------------------------- C14
\* the step writes a data payload or a record into slot s
HostWritesSlot(s) ==
  /\ Len(log') > Len(log)
  /\ \E k \in (Len(log) + 1)..Len(log') :
       log'[k].ev \in {"data", "post"} /\ log'[k].slot = s

\* record posts of the current call that reached target memory
Posted ==
  Cardinality({k \in 1..Len(log) : log[k].ev = "post" /\ log[k].ok})

\* C14: with the helper draining the slots alternately from slot 0,
\* concurrently with the host, no step of cc26xx_erase or cc26xx_write after
\* the launch of the helper writes a data payload or a record into a slot
\* whose status word is still "full", and at most two posted records are
\* undrained at any time.
C14_NoOverwriteStep ==
  (op \in {"erase", "write"} /\ pc \in {"loop", "write_post"}) =>
    \A s \in 0..1 : HostWritesSlot(s) => tstatus[s] # CC26XX_BUFFER_FULL

C14_AtMostTwoUndrained ==
  (op \in {"erase", "write"} /\ pc \in {"loop", "write_post", "wait", "finish"})
    => (Posted - drained >= 0 /\ Posted - drained <= 2)

C14_NoOverwrite ==
  [][C14_NoOverwriteStep /\ C14_AtMostTwoUndrained']_vars

\* the host reuses slot 0 in the third round while the record of the second
\* round is still undrained
C14_Witness ==
  /\ op = "write" /\ pc = "wait"
  /\ Posted = 3 /\ drained = 1
  /\ tstatus[0] = CC26XX_BUFFER_FULL /\ tstatus[1] = CC26XX_BUFFER_FULL

\* ----------------------------------------------------------------- C15
\* C15: cc26xx_wait_algo_done returns success if and only if the last
\* status it read is "empty"; when its loop ends on a status that is not
\* "empty" ("full" after the timeout, or any other value) it returns
\* ERROR_FAIL; "full" ends the loop only after the timeout; and a status
\* that is neither "full" nor "empty" ends the loop on the read returning it.
C15_WaitStep ==
  pc = "wait" =>
    /\ pc' = "wait" => (wstatus' = CC26XX_BUFFER_FULL /\ retval' = ERROR_OK)
    /\ pc' # "wait" =>
         /\ retval' = ERROR_OK <=> wstatus' = CC26XX_BUFFER_EMPTY
         /\ (retval' # ERR_READ /\ wstatus' # CC26XX_BUFFER_EMPTY) =>
              retval' = ERROR_FAIL
         /\ (retval' # ERR_READ /\ wstatus' = CC26XX_BUFFER_FULL) =>
              elapsed' > FLASH_TIMEOUT
         /\ retval' = ERR_READ =>
              (wstatus' = CC26XX_BUFFER_FULL /\ elapsed' = elapsed)

C15_WaitResultIffEmpty == [][C15_WaitStep]_vars

\* the wait has just returned ERROR_FAIL on a status that is neither "full"
\* nor "empty", before its timeout
C15_Witness ==
  /\ pc = "finish"
  /\ wstatus = STATUS_OTHER
  /\ retval = ERROR_FAIL
  /\ elapsed <= FLASH_TIMEOUT

\* ----------------------------------------------------------------- C16
\* position of the first entry of primitive e in log, 0 when there is none
RECURSIVE FirstAt(_, _)
FirstAt(e, k) ==
  IF k > Len(log) THEN 0
  ELSE IF log[k].ev = e THEN k ELSE FirstAt(e, k + 1)

\* cc26xx_init of the current call has returned with error r
InitFailedWith(r) ==
  /\ pc = "done" /\ op \in {"erase", "mass_erase", "write"}
  /\ retval = r
  /\ Calls("halt") = 0

\* C16, the states: when the allocation fails (its error is returned) or
\* yields another address than CC26XX_ALGO_BASE_ADDRESS
\* (ERROR_TARGET_RESOURCE_NOT_AVAILABLE is returned), cc26xx_init has neither
\* uploaded the helper nor started it; when the upload fails the helper is
\* not started; and a start is always preceded by one successful allocation
\* and one successful upload.
C16_StartOrder ==
  /\ (InitFailedWith(ERR_ALLOC)
        \/ InitFailedWith(ERROR_TARGET_RESOURCE_NOT_AVAILABLE)) =>
       /\ Calls("alloc") = 1
       /\ Calls("upload") = 0
       /\ Calls("start") = 0
       /\ log[FirstAt("alloc", 1)].ok <=>
            retval = ERROR_TARGET_RESOURCE_NOT_AVAILABLE
  /\ \A k \in 1..Len(log) :
       (log[k].ev = "upload" /\ ~log[k].ok) =>
         (Calls("start") = 0 /\ (pc = "done" => retval = ERR_WRITE))
  /\ Calls("start") >= 1 =>
       /\ Calls("start") = 1 /\ Calls("alloc") = 1 /\ Calls("upload") = 1
       /\ FirstAt("alloc", 1) < FirstAt("upload", 1)
       /\ FirstAt("upload", 1) < FirstAt("start", 1)
       /\ log[FirstAt("alloc", 1)].ok
       /\ log[FirstAt("upload", 1)].ok

\* C16, the steps: the helper starts running only in a step of cc26xx_init
\* that allocates, uploads and starts with success, and a step of
\* cc26xx_init that fails leaves the helper as it was.
C16_LaunchStep ==
  /\ (~algoRunning /\ algoRunning') =>
       /\ pc = "init"
       /\ retval' = ERROR_OK
       /\ working_area' = AREA
       /\ Len(log') >= 3
       /\ SubSeq(log', Len(log') - 2, Len(log')) =
            <<Ev("alloc"), Ev("upload"), Ev("start")>>
  /\ (pc = "init" /\ retval' # ERROR_OK) =>
       (algoRunning' = algoRunning /\ pc' = "done")

C16_StartOnlyAfterAllocAndUpload ==
  [][C16_StartOrder' /\ C16_LaunchStep]_vars

\* cc26xx_init has failed on an allocation at another address
C16_Witness ==
  /\ InitFailedWith(ERROR_TARGET_RESOURCE_NOT_AVAILABLE)
  /\ working_area = AREA
  /\ Calls("alloc") = 1

\* ----------------------------------------------------------------- C17
\* the last three entries of log after the step
QuitTail == SubSeq(log', Len(log') - 2, Len(log'))

\* C17: cc26xx_quit, called by the host's step at "finish", performs in
\* this order a halt whose error is ignored, a join with the 8000 ms flash
\* timeout and a release of the working area; whatever the halt and the
\* join return, the area is released and the handle cleared, and the value
\* it returns is the result of the join.
C17_QuitStep ==
  (pc = "finish" /\ <<pc, log, working_area, allocated, quitRet>>'
                      # <<pc, log, working_area, allocated, quitRet>>) =>
    /\ pc' # "finish"
    /\ Len(log') = Len(log) + 3
    /\ SubSeq(log', 1, Len(log)) = log
    /\ QuitTail[1].ev = "halt"
    /\ QuitTail[2].ev = "join"
    /\ QuitTail[2].len = 8000
    /\ QuitTail[3] = Ev("free")
    /\ working_area' = NULL_AREA
    /\ allocated' = allocated - 1
    /\ quitRet' = IF QuitTail[2].ok THEN ERROR_OK ELSE ERR_JOIN

C17_QuitOrder == [][C17_QuitStep]_vars

\* cc26xx_quit has released the area although halt and join both failed
C17_Witness ==
  /\ Returned
  /\ \E k \in 1..Len(log) : log[k].ev = "halt" /\ ~log[k].ok
  /\ \E k \in 1..Len(log) : log[k].ev = "join" /\ ~log[k].ok
  /\ quitRet = ERR_JOIN
  /\ working_area = NULL_AREA
  /\ allocated = 0

\* cc26xx_quit has returned success although the halt failed
C17_HaltErrorIgnored ==
  /\ Returned
  /\ \E k \in 1..Len(log) : log[k].ev = "halt" /\ ~log[k].ok
  /\ quitRet = ERROR_OK

\* ----------------------------------------------------------------- C18
\* C18: the step of cc26xx_mass_erase, cc26xx_erase and cc26xx_write that
\* calls cc26xx_quit and returns keeps retval whatever cc26xx_quit
\* returns: an error of the handshake is returned as it is, and after a
\* handshake without error the call returns success and marks the sector
\* table (every sector erased after a mass erase, first..last erased after
\* an erase, the sector holding offset not erased after a write of at least
\* one byte); after an error the table is not marked.
C18_FinishStep ==
  (pc = "finish" /\ pc' # "finish") =>
    /\ quitRet' \in {ERROR_OK, ERR_JOIN}
    /\ retval' = retval
    /\ DOMAIN sectors' = DOMAIN sectors
    /\ retval # ERROR_OK => sectors' = sectors
    /\ (retval = ERROR_OK /\ op = "mass_erase") =>
         \A k \in DOMAIN sectors : sectors'[k] = IS_ERASED
    /\ (retval = ERROR_OK /\ op = "erase") =>
         \A k \in DOMAIN sectors :
           sectors'[k] = IF first <= k /\ k <= last THEN IS_ERASED
                         ELSE sectors[k]
    /\ (retval = ERROR_OK /\ op = "write" /\ count >= 1) =>
         \A k \in DOMAIN sectors :
           /\ k = offset \div SectorLength => sectors'[k] = IS_NOT_ERASED
           /\ sectors'[k] \in {IS_NOT_ERASED, sectors[k]}

C18_ResultIgnoresQuit == [][C18_FinishStep]_vars

\* an erase has returned success and marked its sectors although the halt
\* and the join of cc26xx_quit failed
C18_Witness ==
  /\ pc = "done" /\ op = "erase" /\ retval = ERROR_OK
  /\ quitRet = ERR_JOIN
  /\ \E k \in 1..Len(log) : log[k].ev = "halt" /\ ~log[k].ok
  /\ first \in DOMAIN sectors /\ sectors[first] = IS_ERASED

\* a call has returned the error of its handshake although cc26xx_quit
\* failed too
C18_OriginalErrorKept ==
  /\ Returned /\ retval = ERR_WRITE /\ quitRet = ERR_JOIN

\* ----------------------------------------------------------------- C19
\* the step in which a round of cc26xx_erase or cc26xx_write fails
RoundFails ==
  /\ op \in {"erase", "write"}
  /\ pc \in {"loop", "write_post", "wait"}
  /\ retval = ERROR_OK
  /\ retval' # ERROR_OK

\* C19: in cc26xx_erase and cc26xx_write, the step in which a target
\* memory write fails (ERR_WRITE), a status read fails (ERR_READ) or the
\* wait fails (ERROR_FAIL) leaves the loop for the call of cc26xx_quit;
\* from then on no data payload is written, no record is posted and no
\* wait, the trailing wait included, is made, and the call returns the
\* error of that first failure.
C19_FailureStep ==
  /\ RoundFails =>
       /\ pc' = "finish"
       /\ IF pc = "wait"
          THEN /\ retval' \in {ERR_READ, ERROR_FAIL}
               /\ log' = log
          ELSE /\ retval' = ERR_WRITE
               /\ Len(log') = Len(log) + 1
               /\ log'[Len(log')].ev \in {"data", "post"}
               /\ ~log'[Len(log')].ok
  /\ (op \in {"erase", "write"} /\ retval # ERROR_OK
        /\ pc \notin {"idle", "init", "done"}) =>
       /\ pc = "finish"
       /\ pc' \in {"finish", "done"}
       /\ retval' = retval
       /\ HandshakeLog' = HandshakeLog

C19_FirstFailureEndsHandshake == [][C19_FailureStep]_vars

\* a write of three rounds has returned the failure of the wait of its
\* second round: two records posted, two waits made
C19_Witness ==
  /\ pc = "done" /\ op = "write" /\ retval = ERROR_FAIL
  /\ Rounds = 3
  /\ Calls("post") = 2
  /\ Calls("wait") = 2
  /\ QuitCalls = 1

\* ----------------------------------------------------------------- C20
\* the program records of the current call, in order
Posts == SelectSeq(log, LAMBDA e : e.ev = "post")

RECURSIVE SumLen(_)
SumLen(q) == IF q = << >> THEN 0 ELSE Head(q).len + SumLen(Tail(q))

\* cc26xx_write of at least one byte has returned success
WriteSucceeded ==
  pc = "done" /\ op = "write" /\ retval = ERROR_OK /\ count >= 1

\* C20: a successful write of count >= 1 bytes has posted exactly
\* ceil(count / sector_length) program records; each has a length from 1 to
\* sector_length, the first has address base + offset, each
\* later one has the address of its predecessor plus the predecessor's
\* length, and the lengths sum to count.
C20_RecordsCoverRange ==
  WriteSucceeded =>
    /\ Len(Posts) = (count + SectorLength - 1) \div SectorLength
    /\ \A k \in 1..Len(Posts) :
         /\ Posts[k].ok
         /\ Posts[k].len >= 1
         /\ Posts[k].len <= SectorLength
    /\ Posts[1].addr = CC26XX_FLASH_BASE_ADDR + offset
    /\ \A k \in 1..(Len(Posts) - 1) :
         Posts[k + 1].addr = Posts[k].addr + Posts[k].len
    /\ SumLen(Posts) = count

\* a successful unaligned write of three records, the last one short
C20_Witness ==
  /\ WriteSucceeded
  /\ offset % SectorLength # 0
  /\ Len(Posts) = 3
  /\ Posts[3].len < SectorLength

\* ----------------------------------------------------------------- C21
\* working areas outstanding after the first k primitives of the current
\* call: the one held at entry, plus the successful allocations, minus the
\* releases
OutstandingAt(k) ==
  (IF entry.working_area # NULL_AREA THEN 1 ELSE 0)
  + Cardinality({j \in 1..k : log[j].ev = "alloc" /\ log[j].ok})
  - Cardinality({j \in 1..k : log[j].ev = "free"})

C21_FailedAllocAfterLeftover ==
  /\ Returned /\ retval = ERR_ALLOC
  /\ entry.working_area # NULL_AREA
  /\ Calls("free") = 1
  /\ allocated = 0

\* ----------------------------------------------------------------- C22
\* the wait entered as k-th primitive polls a slot no record was posted to
PollsUnposted(k) ==
  /\ log[k].ev = "wait"
  /\ ~\E j \in 1..(k - 1) :
        log[j].ev = "post" /\ log[j].ok /\ log[j].slot = log[k].slot

\* C22: in a write with count = 0, at any offset within the bank, no
\* record is posted, no wait polls a slot that was never posted, no sector
\* is changed to not erased, and no sector index outside the table is
\* written.
C22_EmptyWriteTouchesNothing ==
  (op = "write" /\ count = 0) =>
    /\ Calls("post") = 0
    /\ \A k \in 1..Len(log) : ~PollsUnposted(k)
    /\ \A k \in DOMAIN sectors :
         sectors[k] = IS_NOT_ERASED =>
           (k \in DOMAIN entry.sectors /\ entry.sectors[k] = IS_NOT_ERASED)
    /\ pc # "fault"

\* write(offset = 0, count = 0) has stored to a sector index outside the
\* table after marking every sector not erased
C22_OutOfBoundsStore ==
  /\ op = "write" /\ count = 0 /\ offset = 0
  /\ pc = "fault"
  /\ \A k \in DOMAIN sectors : sectors[k] = IS_NOT_ERASED

\* write(offset > 0, count = 0) has returned success after polling slot 1
C22_EmptyWriteWaitsOnSlotOne ==
  /\ pc = "done" /\ op = "write" /\ count = 0 /\ offset > 0
  /\ retval = ERROR_OK
  /\ PostsAndWaits = <<EvSlot("wait", 1)>>

====
